---- MODULE Spec2Model ----
(***************************************************************************)
(* Option pricers of the QLib notebooks: the multiplicative binomial tree  *)
(* (BM_Euro, BM_Amer), the additive binomial tree (aBM_Euro, aBM_Amer with *)
(* the parameter choices CRR, JD, EQP, TRG), the trinomial tree (aTM_Euro,  *)
(* aTM_Amer) and the Monte Carlo estimators (MC_Euro, MCAV_Euro).           *)
(*                                                                         *)
(* One behaviour of the model is one call of one pricer.  The arguments    *)
(* are drawn in Init; each action is one statement block of the function, *)
(* in the order of the source.                                             *)
(*                                                                         *)
(* Numbers.  The source computes in IEEE doubles.  The model computes in   *)
(* decimal fixed point with SC units per 1.0: every product and quotient   *)
(* is rounded to the nearest unit (half away from zero), as a double       *)
(* operation is rounded to the nearest double.  exp, log and sqrt are      *)
(* computed (series, integer square root), not assumed.  A non-finite      *)
(* numpy result (division by zero, sqrt of a negative) is the value NaN,   *)
(* which every operation absorbs and every comparison answers FALSE to.    *)
(***************************************************************************)
EXTENDS Integers, Sequences, FiniteSets, TLC

----------------------------------------------------------------------------
(* Fixed-point arithmetic                                                  *)

SC == 100 * 100                   \* units per 1.0
NaN == -(2^30)                    \* numpy nan / inf
None == <<>>                      \* a name not bound yet

Abs(x) == IF x < 0 THEN -x ELSE x
Sgn(x) == IF x < 0 THEN -1 ELSE 1
Max(a, b) == IF a >= b THEN a ELSE b
Min(a, b) == IF a <= b THEN a ELSE b

\* n / q rounded to the nearest integer, half away from zero (q > 0)
RoundDiv(n, q) == Sgn(n) * ((2 * Abs(n) + q) \div (2 * q))

IsNaN(x) == x = NaN

FAdd(a, b) == IF IsNaN(a) \/ IsNaN(b) THEN NaN ELSE a + b
FSub(a, b) == IF IsNaN(a) \/ IsNaN(b) THEN NaN ELSE a - b
FNeg(a) == IF IsNaN(a) THEN NaN ELSE -a

\* a * b; the larger factor is split into integer and fraction so that no
\* intermediate leaves the 32-bit range
Mul(a, b) ==
    IF IsNaN(a) \/ IsNaN(b) THEN NaN
    ELSE LET big == Max(Abs(a), Abs(b))
             small == Min(Abs(a), Abs(b))
         IN  Sgn(a) * Sgn(b) *
             ((big \div SC) * small + RoundDiv((big % SC) * small, SC))

\* a / b; numpy scalar division by zero yields inf or nan, never an exception
Div(a, b) ==
    IF IsNaN(a) \/ IsNaN(b) \/ b = 0 THEN NaN
    ELSE LET x == Abs(a)
             y == Abs(b)
             \* the remainder is scaled by SC in two steps of 100, so that no
             \* intermediate leaves the 32-bit range
             r1 == (x % y) * 100
         IN  Sgn(a) * Sgn(b) *
             ((x \div y) * SC + (r1 \div y) * 100 + RoundDiv((r1 % y) * 100, y))

\* Python comparisons: any comparison with nan is False
Lt(a, b) == ~IsNaN(a) /\ ~IsNaN(b) /\ a < b
Le(a, b) == ~IsNaN(a) /\ ~IsNaN(b) /\ a <= b

RECURSIVE ISqrt(_, _, _)
\* the largest s in lo..hi with s * s <= n
ISqrt(n, lo, hi) ==
    IF lo >= hi THEN lo
    ELSE LET mid == (lo + hi + 1) \div 2
         IN  IF mid * mid <= n THEN ISqrt(n, mid, hi) ELSE ISqrt(n, lo, mid - 1)

\* np.sqrt: nan for a negative argument
Sqrt(x) ==
    IF IsNaN(x) \/ x < 0 THEN NaN
    ELSE ISqrt(x * SC, 0, 46000)

ExpTerms == 12

RECURSIVE ExpSeries(_, _, _, _)
\* sum of the terms x^k / k! for k >= n, term being x^(n-1) / (n-1)!
ExpSeries(x, term, n, acc) ==
    IF n > ExpTerms \/ term = 0 THEN acc
    ELSE LET next == RoundDiv(Mul(term, x), n)
         IN  ExpSeries(x, next, n + 1, acc + next)

RECURSIVE Exp(_)
\* np.exp: argument halving down to |x| <= 0.5, then the series
Exp(x) ==
    IF IsNaN(x) THEN NaN
    ELSE IF Abs(x) > SC \div 2
         THEN LET h == Exp(x \div 2)
                  g == Exp(x - (x \div 2))
              IN  Mul(h, g)
         ELSE ExpSeries(x, SC, 1, SC)

RECURSIVE LnSeries(_, _, _, _)
\* sum of z^(2k+1) / (2k+1), pw being z^(2k+1)
LnSeries(z2, pw, k, acc) ==
    IF k > ExpTerms \/ pw = 0 THEN acc
    ELSE LnSeries(z2, Mul(pw, z2), k + 1, acc + RoundDiv(pw, 2 * k + 1))

\* np.log: nan (or -inf) for a non-positive argument
Ln(y) ==
    IF IsNaN(y) \/ y <= 0 THEN NaN
    ELSE LET z == Div(y - SC, y + SC)
         IN  2 * LnSeries(Mul(z, z), z, 0, 0)

RECURSIVE IPow(_, _)
\* b ** e for an integer exponent e >= 0, by repeated multiplication
IPow(b, e) == IF e = 0 THEN SC ELSE Mul(IPow(b, e - 1), b)

Half == SC \div 2                 \* the literal 0.5
One == SC                         \* the literal 1.0

----------------------------------------------------------------------------
(* Arrays: a matrix is a sequence of rows, a row a sequence of cells.      *)
(* The source's indices are 0-based; At and Put take 0-based indices.      *)

Zeros(rows, cols) == [i \in 1..rows |-> [j \in 1..cols |-> 0]]
NRows(M) == Len(M)
At(M, i, j) == M[i + 1][j + 1]

\* the numpy slice M[a:b, col] as a sequence (a, b >= 0; the stop is clipped
\* to the number of rows, as numpy clips it)
Slice(M, a, b, col) ==
    LET stop == Min(b, NRows(M))
        n == Max(stop - a, 0)
    IN  [k \in 1..n |-> At(M, a + k - 1, col)]

\* the numpy assignment M[a:b, col] = vals (same length on both sides)
PutSlice(M, a, b, col, vals) ==
    [i \in 1..NRows(M) |->
        [j \in 1..Len(M[i]) |->
            IF j = col + 1 /\ i - 1 >= a /\ i - 1 < Min(b, NRows(M))
            THEN vals[i - a]
            ELSE M[i][j]]]

\* M[:, -1], the last column
LastCol(M) == [i \in 1..NRows(M) |-> M[i][Len(M[i])]]

----------------------------------------------------------------------------
(* Parameter choices of the additive binomial model: each returns          *)
(* <<u, d, p>>                                                             *)

CRR(r, sigma, T, nsteps) ==
    LET dt == RoundDiv(T, nsteps)
        sdt == Sqrt(dt)
        nu == r - Mul(Half, Mul(sigma, sigma))
        u == Exp(Mul(nu, dt) + Mul(sigma, sdt))
        d == Exp(Mul(nu, dt) - Mul(sigma, sdt))
        p == Half
    IN  <<u, d, p>>

JD(r, sigma, T, nsteps) ==
    LET dt == RoundDiv(T, nsteps)
        sdt == Sqrt(dt)
        nu == r - Mul(Half, Mul(sigma, sigma))
        u == Exp(Mul(sigma, sdt))
        d == Exp(-Mul(sigma, sdt))
        p == Mul(Half, FAdd(One, Div(Mul(nu, sdt), sigma)))
    IN  <<u, d, p>>

EQP(r, sigma, T, nsteps) ==
    LET dt == RoundDiv(T, nsteps)
        sdt == Sqrt(dt)
        nu == r - Mul(Half, Mul(sigma, sigma))
        u == Exp(Mul(Mul(Half, nu), dt) + Mul(sigma, sdt))
        d == Exp(Mul(Mul(One + Half, nu), dt) - Mul(sigma, sdt))
        p == Half
    IN  <<u, d, p>>

TRG(r, sigma, T, nsteps) ==
    LET dt == RoundDiv(T, nsteps)
        sdt == Sqrt(dt)
        nu == r - Mul(Half, Mul(sigma, sigma))
        dx == Sqrt(Mul(Mul(sigma, sigma), dt) + Mul(Mul(nu, dt), Mul(nu, dt)))
        u == Exp(dx)
        d == Exp(FNeg(dx))
        p == Mul(Half, FAdd(One, Div(Mul(nu, dt), dx)))
    IN  <<u, d, p>>

Modes == {"CRR", "JD", "EQP", "TRG"}

\* params = mode(r=r, sigma=sigma, T=T, nsteps=Ntree)
ModeParams(mode, r, sigma, T, nsteps) ==
    CASE mode = "CRR" -> CRR(r, sigma, T, nsteps)
      [] mode = "JD" -> JD(r, sigma, T, nsteps)
      [] mode = "EQP" -> EQP(r, sigma, T, nsteps)
      [] mode = "TRG" -> TRG(r, sigma, T, nsteps)
      [] OTHER -> <<NaN, NaN, NaN>>   \* not callable: excluded by the mode check

----------------------------------------------------------------------------
(* Statement blocks of the lattice pricers, as operators                   *)

IsBM(f) == f \in {"BM_Euro", "BM_Amer"}
IsABM(f) == f \in {"aBM_Euro", "aBM_Amer"}
IsATM(f) == f \in {"aTM_Euro", "aTM_Amer"}
IsMC(f) == f \in {"MC_Euro", "MCAV_Euro"}
IsLattice(f) == IsBM(f) \/ IsABM(f) \/ IsATM(f)
IsAmer(f) == f \in {"BM_Amer", "aBM_Amer", "aTM_Amer"}

\* a variant of BMParams with the fixed probability 1/2 of the additive
\* schemes in place of the risk neutral one
BMParamsHalf(a) ==
    LET dt == RoundDiv(a.T, a.N)
        dfact == Exp(-Mul(a.r, dt))
    IN  [dt |-> dt, dfact |-> dfact, u |-> a.u, d |-> a.d, p |-> Half]

\* BM_*: dt, dfact and the risk neutral probability of an up move
BMParams(a) ==
    LET dt == RoundDiv(a.T, a.N)
        dfact == Exp(-Mul(a.r, dt))
        p == Div(Exp(Mul(a.r, dt)) - a.d, a.u - a.d)
    IN  [dt |-> dt, dfact |-> dfact, u |-> a.u, d |-> a.d, p |-> p]

\* aBM_*: dt, dfact, the chosen mode's u, d, p and their logarithms
ABMParams(a) ==
    LET dt == RoundDiv(a.T, a.N)
        dfact == Exp(-Mul(a.r, dt))
        params == ModeParams(a.mode, a.r, a.sigma, a.T, a.N)
    IN  [dt |-> dt, dfact |-> dfact, u |-> params[1], d |-> params[2],
         p |-> params[3], lnu |-> Ln(params[1]), lnd |-> Ln(params[2])]

\* a variant of ATMParams whose s leaves out the squared drift term
ATMParamsNoDriftSquare(a) ==
    LET dt == RoundDiv(a.T, a.N)
        sdt == Sqrt(dt)
        dx == Mul(Mul(Sqrt(3 * SC), a.sigma), sdt)
        dfact == Exp(-Mul(a.r, dt))
        nu == (a.r - a.div) - Mul(Half, Mul(a.sigma, a.sigma))
        sf == Div(Mul(Mul(a.sigma, a.sigma), dt), Mul(dx, dx))
        af == Div(Mul(nu, dt), dx)
    IN  [dt |-> dt, dx |-> dx, dfact |-> dfact,
         pu |-> Mul(Half, FAdd(sf, af)),
         pm |-> FSub(One, sf),
         pd |-> Mul(Half, FSub(sf, af))]

\* aTM_*: dt, dx, dfact and the trinomial probabilities
ATMParams(a) ==
    LET dt == RoundDiv(a.T, a.N)
        sdt == Sqrt(dt)
        dx == Mul(Mul(Sqrt(3 * SC), a.sigma), sdt)
        dfact == Exp(-Mul(a.r, dt))
        nu == (a.r - a.div) - Mul(Half, Mul(a.sigma, a.sigma))
        sf == Div(Mul(Mul(a.sigma, a.sigma), dt) + Mul(Mul(nu, dt), Mul(nu, dt)),
                  Mul(dx, dx))
        af == Div(Mul(nu, dt), dx)
    IN  [dt |-> dt, dx |-> dx, dfact |-> dfact,
         pu |-> Mul(Half, FAdd(sf, af)),
         pm |-> FSub(One, sf),
         pd |-> Mul(Half, FSub(sf, af))]

\* a variant of BMParamsOK without the test 0 < d
BMParamsOKNoFloor(a, q) ==
    /\ Lt(a.d, Div(One, q.dfact))
    /\ Lt(Div(One, q.dfact), a.u)

\* the "parameter exception" condition of BM_*: 0 < d < 1/dfact < u
BMParamsOK(a, q) ==
    /\ Lt(0, a.d)
    /\ Lt(a.d, Div(One, q.dfact))
    /\ Lt(Div(One, q.dfact), a.u)

\* a variant of RSigmaOK with non-strict comparisons
RSigmaOKNonStrict(a) == Le(0, a.r) /\ Le(0, a.sigma)

\* the "parameter exception" condition of aBM_* and aTM_*
RSigmaOK(a) == Lt(0, a.r) /\ Lt(0, a.sigma)

\* a variant of BMPayoffMatrix with the exponents of u and d exchanged
BMPayoffMatrixFlipped(a) ==
    [i \in 1..a.N + 1 |->
        [j \in 1..a.N + 1 |->
            LET t == j - 1
                k == (i - 1) - (a.N - t)
            IN  IF k >= 0
                THEN Mul(Mul(a.S0, IPow(a.u, k)), IPow(a.d, t - k)) - a.K
                ELSE 0]]

\* BM_*: asset prices minus strikes on the reachable cells (row N-t+k of
\* column t holds the node with k down moves), zero elsewhere
BMPayoffMatrix(a) ==
    [i \in 1..a.N + 1 |->
        [j \in 1..a.N + 1 |->
            LET t == j - 1
                k == (i - 1) - (a.N - t)
            IN  IF k >= 0
                THEN Mul(Mul(a.S0, IPow(a.u, t - k)), IPow(a.d, k)) - a.K
                ELSE 0]]

\* aBM_*: the same cells, the price being S0*exp(lnu*(t-k) + lnd*k)
ABMPayoffMatrix(a, q) ==
    [i \in 1..a.N + 1 |->
        [j \in 1..a.N + 1 |->
            LET t == j - 1
                k == (i - 1) - (a.N - t)
            IN  IF k >= 0
                THEN Mul(a.S0, Exp(q.lnu * (t - k) + q.lnd * k)) - a.K
                ELSE 0]]

\* aTM_*: rows j0-t..j0+t of column t hold S0*exp(dx*e) - K for e = t..-t
ATMPayoffMatrix(a, q) ==
    [i \in 1..2 * a.N + 1 |->
        [j \in 1..a.N + 1 |->
            LET t == j - 1
                k == (i - 1) - (a.N - t)
            IN  IF k >= 0 /\ k <= 2 * t
                THEN Mul(a.S0, Exp(q.dx * (t - k))) - a.K
                ELSE 0]]

\* optype == 'call': Pmat[Pmat<0] = 0
ClampCall(P) == [i \in 1..Len(P) |-> [j \in 1..Len(P[i]) |-> Max(P[i][j], 0)]]

\* a variant of ClampPut without the change of sign
ClampPutUnsigned(P) ==
    [i \in 1..Len(P) |-> [j \in 1..Len(P[i]) |-> Min(P[i][j], 0)]]

\* optype == 'put': Pmat[Pmat>0] = 0; Pmat = -Pmat
ClampPut(P) == [i \in 1..Len(P) |-> [j \in 1..Len(P[i]) |-> -Min(P[i][j], 0)]]

\* a variant of TerminalValues that copies the last column but one
TerminalValuesShifted(P) ==
    LET cols == Len(P[1])
    IN  PutSlice(Zeros(Len(P), cols), 0, Len(P), cols - 1,
                 Slice(P, 0, Len(P), cols - 2))

\* Vmat = zeros; Vmat[:,-1] = Pmat[:,-1]
TerminalValues(P) ==
    LET cols == Len(P[1])
    IN  PutSlice(Zeros(Len(P), cols), 0, Len(P), cols - 1, LastCol(P))

\* a variant of BinomContinuation that weights the lower slice with p and
\* the upper slice with 1-p
BinomContinuationSwapped(V, q, N, m) ==
    LET t == N - 1 - m
        up == Slice(V, m, N, t + 1)
        dn == Slice(V, m + 1, N + 1, t + 1)
    IN  [k \in 1..Len(up) |->
            Mul(q.dfact, Mul(q.p, dn[k]) + Mul(One - q.p, up[k]))]

\* dfact*(p*Vmat[m:Ntree, t+1] + (1-p)*Vmat[m+1:, t+1])
BinomContinuation(V, q, N, m) ==
    LET t == N - 1 - m
        up == Slice(V, m, N, t + 1)
        dn == Slice(V, m + 1, N + 1, t + 1)
    IN  [k \in 1..Len(up) |->
            Mul(q.dfact, Mul(q.p, up[k]) + Mul(One - q.p, dn[k]))]

\* a variant of TrinomContinuation that weights the lower slice with pu and
\* the upper slice with pd
TrinomContinuationSwapped(V, q, N, m) ==
    LET t == N - 1 - m
        up == Slice(V, m, 2 * N - (m + 1), t + 1)
        md == Slice(V, m + 1, 2 * N - m, t + 1)
        dn == Slice(V, m + 2, 2 * N - (m - 1), t + 1)
    IN  [k \in 1..Len(up) |->
            Mul(q.dfact, Mul(q.pu, dn[k]) + Mul(q.pm, md[k]) + Mul(q.pd, up[k]))]

\* dfact*(pu*Vmat[m:2*Ntree-(m+1), t+1] + pm*Vmat[m+1:2*Ntree-m, t+1]
\*        + pd*Vmat[m+2:2*Ntree-(m-1), t+1])
TrinomContinuation(V, q, N, m) ==
    LET t == N - 1 - m
        up == Slice(V, m, 2 * N - (m + 1), t + 1)
        md == Slice(V, m + 1, 2 * N - m, t + 1)
        dn == Slice(V, m + 2, 2 * N - (m - 1), t + 1)
    IN  [k \in 1..Len(up) |->
            Mul(q.dfact, Mul(q.pu, up[k]) + Mul(q.pm, md[k]) + Mul(q.pd, dn[k]))]

Continuation(f, V, q, N, m) ==
    IF IsATM(f) THEN TrinomContinuation(V, q, N, m)
    ELSE BinomContinuation(V, q, N, m)

\* first row and stop row of the slice of column t that step m writes
LayerFrom(f, N, m) == IF IsATM(f) THEN N - (N - 1 - m) ELSE m + 1
LayerStop(f, N, m) == IF IsATM(f) THEN N + (N - 1 - m) + 1 ELSE N + 1

\* a variant of Maximum that keeps its first argument
MaximumFirst(x, y) == x

\* np.maximum(x, y)
Maximum(x, y) == [k \in 1..Len(x) |-> Max(x[k], y[k])]

\* one iteration of the European loop
EuroStep(f, V, q, N, m) ==
    PutSlice(V, LayerFrom(f, N, m), LayerStop(f, N, m), N - 1 - m,
             Continuation(f, V, q, N, m))

\* a variant of AmerStep that takes the exercise values from column t+1 of
\* the payoff matrix
AmerStepNextLayer(f, V, P, q, N, m) ==
    PutSlice(V, LayerFrom(f, N, m), LayerStop(f, N, m), N - 1 - m,
             Maximum(Continuation(f, V, q, N, m),
                     Slice(P, LayerFrom(f, N, m), LayerStop(f, N, m), N - m)))

\* one iteration of the American loop
AmerStep(f, V, P, q, N, m) ==
    PutSlice(V, LayerFrom(f, N, m), LayerStop(f, N, m), N - 1 - m,
             Maximum(Continuation(f, V, q, N, m),
                     Slice(P, LayerFrom(f, N, m), LayerStop(f, N, m), N - 1 - m)))

\* a variant of AmerStepTracked without the comparison with the payoff
AmerStepTrackedNoMax(f, V, P, q, N, m) == EuroStep(f, V, q, N, m)

\* the value update of one iteration of the American loop with
\* exmat == True
AmerStepTracked(f, V, P, q, N, m) ==
    PutSlice(V, LayerFrom(f, N, m), LayerStop(f, N, m), N - 1 - m,
             Maximum(Continuation(f, V, q, N, m),
                     Slice(P, LayerFrom(f, N, m), LayerStop(f, N, m), N - 1 - m)))

\* a variant of ExerciseStep that flags a node when the continuation value
\* is at most the payoff
ExerciseStepTie(f, E, V, P, q, N, m) ==
    LET c == Continuation(f, V, q, N, m)
        pay == Slice(P, LayerFrom(f, N, m), LayerStop(f, N, m), N - 1 - m)
    IN  PutSlice(E, LayerFrom(f, N, m), LayerStop(f, N, m), N - 1 - m,
                 [k \in 1..Len(c) |-> IF c[k] - pay[k] <= 0 THEN 1 ELSE 0])

\* the early exercise row of one iteration: (continuation - Pmat) < 0,
\* evaluated after Vmat[.., t] has been written
ExerciseStep(f, E, V, P, q, N, m) ==
    LET c == Continuation(f, V, q, N, m)
        pay == Slice(P, LayerFrom(f, N, m), LayerStop(f, N, m), N - 1 - m)
    IN  PutSlice(E, LayerFrom(f, N, m), LayerStop(f, N, m), N - 1 - m,
                 [k \in 1..Len(c) |-> IF c[k] - pay[k] < 0 THEN 1 ELSE 0])

----------------------------------------------------------------------------
(* Statement blocks of the Monte Carlo estimators, as operators            *)

\* np.cumsum of a row
RECURSIVE CumSum(_, _)
CumSum(row, k) == IF k = 0 THEN 0 ELSE CumSum(row, k - 1) + row[k]

\* values of a standard normal draw
ZSet == {-One, One}

\* np.random.standard_normal(size=(nsim,nsteps)) of a generator that has no
\* seeded state: any sample
SamplesUnseeded(st, g, nsim, nsteps) == [1..nsim -> [1..nsteps -> ZSet]]

\* np.random.standard_normal(size=(nsim,nsteps)) with the global generator
\* at position g of its stream: the sample is filled row by row from the
\* positions g+1, g+2, ...; where the stream has already produced a number
\* (st, after a re-seed) the same number comes again
Samples(st, g, nsim, nsteps) ==
    {Z \in [1..nsim -> [1..nsteps -> ZSet]] :
        \A i \in 1..nsim : \A k \in 1..nsteps :
            (g + (i - 1) * nsteps + k <= Len(st)) =>
                Z[i][k] = st[g + (i - 1) * nsteps + k]}

\* the stream once sample Z has been drawn at position g
Produced(st, g, Z, nsim, nsteps) ==
    [pos \in 1..Max(Len(st), g + nsim * nsteps) |->
        IF pos <= Len(st) THEN st[pos]
        ELSE Z[((pos - g - 1) \div nsteps) + 1][((pos - g - 1) % nsteps) + 1]]

\* a variant of S1_GBM that multiplies the increments' exponentials up
\* without first summing the increments of the earlier steps
S1_GBMNoCumSum(S0, mu, sigma, T, nsteps, nsim, Z) ==
    LET dt == RoundDiv(T, nsteps)
        drift == Mul(mu - Mul(Half, Mul(sigma, sigma)), dt)
        dz == [i \in 1..nsim |->
                 [k \in 1..nsteps |-> drift + Mul(sigma, Mul(Sqrt(dt), Z[i][k]))]]
    IN  [i \in 1..nsim |->
            [k \in 1..nsteps + 1 |->
                IF k = 1 THEN Mul(S0, One)
                ELSE Mul(S0, Exp(dz[i][k - 1]))]]

\* S1_GBM, Z being the np.random.standard_normal(size=(nsim,nsteps)) sample
S1_GBM(S0, mu, sigma, T, nsteps, nsim, Z) ==
    LET dt == RoundDiv(T, nsteps)
        drift == Mul(mu - Mul(Half, Mul(sigma, sigma)), dt)
        dz == [i \in 1..nsim |->
                 [k \in 1..nsteps |-> drift + Mul(sigma, Mul(Sqrt(dt), Z[i][k]))]]
    IN  [i \in 1..nsim |->
            [k \in 1..nsteps + 1 |->
                IF k = 1 THEN Mul(S0, One)
                ELSE Mul(S0, Exp(CumSum(dz[i], k - 1)))]]

\* a variant of S1AV_GBM whose second nsim rows repeat the first instead of
\* negating the normal draws
S1AV_GBMSameSign(S0, mu, sigma, T, nsteps, nsim, Z) ==
    LET dt == RoundDiv(T, nsteps)
        drift == Mul(mu - Mul(Half, Mul(sigma, sigma)), dt)
        dz == [i \in 1..nsim |->
                 [k \in 1..nsteps |-> drift + Mul(sigma, Mul(Sqrt(dt), Z[i][k]))]]
        both == dz \o dz
    IN  [i \in 1..2 * nsim |->
            [k \in 1..nsteps + 1 |->
                IF k = 1 THEN Mul(S0, One)
                ELSE Mul(S0, Exp(CumSum(both[i], k - 1)))]]

\* S1AV_GBM: the nsim paths of S1_GBM stacked on their antithetic partners
S1AV_GBM(S0, mu, sigma, T, nsteps, nsim, Z) ==
    LET dt == RoundDiv(T, nsteps)
        drift == Mul(mu - Mul(Half, Mul(sigma, sigma)), dt)
        dz == [i \in 1..nsim |->
                 [k \in 1..nsteps |-> drift + Mul(sigma, Mul(Sqrt(dt), Z[i][k]))]]
        dzm == [i \in 1..nsim |->
                 [k \in 1..nsteps |-> drift - Mul(sigma, Mul(Sqrt(dt), Z[i][k]))]]
        both == dz \o dzm
    IN  [i \in 1..2 * nsim |->
            [k \in 1..nsteps + 1 |->
                IF k = 1 THEN Mul(S0, One)
                ELSE Mul(S0, Exp(CumSum(both[i], k - 1)))]]

\* MC_Euro / MCAV_Euro: mu, dt, nu and the per-step discount exponents
MCParams(a) ==
    LET dt == RoundDiv(a.T, a.N)
    IN  [mu |-> a.r - a.div, dt |-> dt,
         nu |-> (a.r - a.div) - Mul(Half, Mul(a.sigma, a.sigma)),
         dfact |-> [k \in 1..a.N |-> Mul(a.r, dt)]]

\* the "parameter exception" condition of MC_Euro and MCAV_Euro.  The
\* repository holds two copies of each function: copy 1 tests 0 <= div,
\* copy 2 tests 0 < div.
MCParamsOK(a, cp) ==
    /\ Lt(0, a.r)
    /\ Lt(0, a.sigma)
    /\ IF cp = 1 THEN Le(0, a.div) ELSE Lt(0, a.div)

\* Parr = Smat[:,-1] - K
MCPayoff(S, K) == [i \in 1..Len(S) |-> S[i][Len(S[i])] - K]

ClampCallArr(P) == [i \in 1..Len(P) |-> Max(P[i], 0)]
ClampPutArr(P) == [i \in 1..Len(P) |-> -Min(P[i], 0)]

RECURSIVE SumSeq(_, _)
SumSeq(x, k) == IF k = 0 THEN 0 ELSE SumSeq(x, k - 1) + x[k]

\* np.mean(np.exp(-np.sum(dfact))*Parr)
MCEstimate(q, P) ==
    LET disc == Exp(-SumSeq(q.dfact, Len(q.dfact)))
        V0arr == [i \in 1..Len(P) |-> Mul(disc, P[i])]
    IN  RoundDiv(SumSeq(V0arr, Len(V0arr)), Len(V0arr))

----------------------------------------------------------------------------
(* The call                                                                *)

VARIABLES
    fn,      \* the function called
    copy,    \* which of the repository's copies of the function (1 or 2)
    args,    \* its arguments
    pc,      \* the statement block to execute next, "done" or "raised"
    par,     \* dt, dfact and the lattice parameters, once computed
    Pmat,    \* price / payoff matrix
    Vmat,    \* option value matrix
    Exmat,   \* early exercise matrix
    m,       \* index of the backward loop (t = Ntree-1-m)
    Smat,    \* simulated paths
    Parr,    \* payoffs of the simulated paths
    rng,     \* normal variates drawn so far from numpy's global generator
    figs,    \* figures opened so far in matplotlib's global state
    err,     \* message of the exception raised
    result,  \* the value returned
    Zmat,    \* the standard normal sample the call drew
    gen,     \* numpy's global generator: position in its seeded stream
    stream,  \* the numbers the seeded stream has produced so far
    gen0,    \* position of the generator when the call began
    peer,    \* numbers drawn by a second call running concurrently
    prev,    \* outcome of the preceding call with the same inputs
    ncall    \* how many times the function has been called

vars == <<fn, copy, args, pc, par, Pmat, Vmat, Exmat, m, Smat, Parr, rng,
          figs, err, result, Zmat, gen, stream, gen0, peer, prev, ncall>>

\* touched by the random draw only
sample == <<Zmat, gen, stream>>
\* touched by no statement of the call itself
outer == <<gen0, peer, prev, ncall>>

\* messages of the exceptions
ParamError == "parameter values not allowed"
OptypeError == "optype must be call or put"
ModeError == "mode not defined"
ZeroDivisionError == "division by zero"

\* Variants of Order, each moving one exception block later than the source
\* has it: the parameter exception after the payoff data,
OrderLateCheck(f, a) ==
    IF IsMC(f) THEN <<"params", "paths", "check", "optype", "estimate">>
    ELSE (IF IsABM(f) THEN <<"mode">> ELSE <<>>)
         \o <<"params", "payoff", "check", "optype", "initV", "back">>
         \o (IF IsAmer(f) /\ a.exmat THEN <<"plot">> ELSE <<>>)
         \o <<"return">>

\* the option type exception after the allocation of Vmat,
OrderLateOptype(f, a) ==
    IF IsMC(f) THEN <<"params", "check", "paths", "optype", "estimate">>
    ELSE (IF IsABM(f) THEN <<"mode">> ELSE <<>>)
         \o <<"params", "check", "payoff", "initV", "optype", "back">>
         \o (IF IsAmer(f) /\ a.exmat THEN <<"plot">> ELSE <<>>)
         \o <<"return">>

\* the scheme exception after the derivation of the parameters
OrderLateMode(f, a) ==
    IF IsMC(f) THEN <<"params", "check", "paths", "optype", "estimate">>
    ELSE <<"params">> \o (IF IsABM(f) THEN <<"mode">> ELSE <<>>)
         \o <<"check", "payoff", "optype", "initV", "back">>
         \o (IF IsAmer(f) /\ a.exmat THEN <<"plot">> ELSE <<>>)
         \o <<"return">>

\* The statement blocks of a function, in source order
Order(f, a) ==
    IF IsMC(f) THEN <<"params", "check", "paths", "optype", "estimate">>
    ELSE (IF IsABM(f) THEN <<"mode">> ELSE <<>>)
         \o <<"params", "check", "payoff", "optype", "initV", "back">>
         \o (IF IsAmer(f) /\ a.exmat THEN <<"plot">> ELSE <<>>)
         \o <<"return">>

\* the block that follows block b
After(f, a, b) ==
    LET o == Order(f, a)
        i == CHOOSE k \in 1..Len(o) : o[k] = b
    IN  IF i = Len(o) THEN "done" ELSE o[i + 1]

Raise(msg) ==
    /\ pc' = "raised"
    /\ err' = msg

Goto(b) ==
    /\ pc' = After(fn, args, b)
    /\ err' = err

----------------------------------------------------------------------------
(* Arguments                                                               *)

\* largest Ntree of the lattice pricers
MaxN == 3
\* largest Nsim
MaxSim == 2
\* largest Nsteps
MaxSteps == 2

S0Set == {100 * SC}
KSet == {50 * SC, 100 * SC}
TSet == {One}
OptypeSet == {"call", "put", "straddle"}
ModeSet == Modes \cup {"LR"}

BMRSet == {-600, 0, 600}
UDSet == {<<11000, 9091>>, <<12500, 8000>>, <<11000, 10500>>,
          <<10100, 9000>>, <<11000, -5000>>, <<11000, 11000>>}
ABMRSet == {0, 600, 5000}
SigmaSet == {0, 2000, 10000}
DivSet == {-300, 0, 300}

NoArg == 0 * SC  \* an argument the function does not take

BMArgs ==
    [S0 : S0Set, K : KSet, r : BMRSet, sigma : {NoArg}, div : {NoArg},
     T : TSet, N : 0..MaxN, Nsim : {NoArg}, optype : OptypeSet,
     u : {x[1] : x \in UDSet}, d : {x[2] : x \in UDSet},
     mode : {"none"}, exmat : BOOLEAN]

ABMArgs ==
    [S0 : S0Set, K : KSet, r : ABMRSet, sigma : SigmaSet, div : {NoArg},
     T : TSet, N : 0..MaxN, Nsim : {NoArg}, optype : OptypeSet,
     u : {NoArg}, d : {NoArg}, mode : ModeSet, exmat : BOOLEAN]

ATMArgs ==
    [S0 : S0Set, K : KSet, r : ABMRSet, sigma : SigmaSet, div : DivSet,
     T : TSet, N : 0..MaxN, Nsim : {NoArg}, optype : OptypeSet,
     u : {NoArg}, d : {NoArg}, mode : {"none"}, exmat : BOOLEAN]

MCArgs ==
    [S0 : S0Set, K : {100 * SC}, r : {0, 600}, sigma : {0, 2000}, div : DivSet,
     T : TSet, N : 0..MaxSteps, Nsim : 1..MaxSim, optype : OptypeSet,
     u : {NoArg}, d : {NoArg}, mode : {"none"}, exmat : {FALSE}]

\* the European functions take no exmat
ArgsOf(f) ==
    LET base == CASE IsBM(f) -> {a \in BMArgs : <<a.u, a.d>> \in UDSet}
                  [] IsABM(f) -> ABMArgs
                  [] IsATM(f) -> ATMArgs
                  [] IsMC(f) -> MCArgs
    IN  IF IsAmer(f) THEN base ELSE {a \in base : a.exmat = FALSE}

Functions == {"BM_Euro", "BM_Amer", "aBM_Euro", "aBM_Amer", "aTM_Euro",
              "aTM_Amer", "MC_Euro", "MCAV_Euro"}

Init ==
    /\ fn \in Functions
    /\ copy \in (IF IsMC(fn) THEN {1, 2} ELSE {1})
    /\ args \in ArgsOf(fn)
    /\ pc = Order(fn, args)[1]
    /\ par = None
    /\ Pmat = None
    /\ Vmat = None
    /\ Exmat = None
    /\ m = 0
    /\ Smat = None
    /\ Parr = None
    /\ rng = 0
    /\ figs = 0
    /\ err = ""
    /\ result = None
    /\ Zmat = None
    /\ gen = 0
    /\ stream = <<>>
    /\ gen0 = 0
    /\ peer = 0
    /\ prev = None
    /\ ncall = 1

----------------------------------------------------------------------------
(* Statement blocks as actions                                             *)

\* aBM_*: if mode not in [CRR, JD, EQP, TRG]: raise
CheckMode ==
    /\ pc = "mode"
    /\ IF args.mode \notin Modes THEN Raise(ModeError) ELSE Goto("mode")
    /\ UNCHANGED <<sample, outer>>
    /\ UNCHANGED <<fn, copy, args, par, Pmat, Vmat, Exmat, m, Smat, Parr,
                   rng, figs, result>>

\* the parameters computed before the parameter exception; dt = T/Ntree
\* raises ZeroDivisionError for Ntree = 0
ParamsOf(f, a) ==
    CASE IsBM(f) -> BMParams(a)
      [] IsABM(f) -> ABMParams(a)
      [] IsATM(f) -> ATMParams(a)
      [] IsMC(f) -> MCParams(a)

ComputeParams ==
    /\ pc = "params"
    /\ IF args.N = 0
       THEN Raise(ZeroDivisionError) /\ par' = par
       ELSE Goto("params") /\ par' = ParamsOf(fn, args)
    /\ UNCHANGED <<sample, outer>>
    /\ UNCHANGED <<fn, copy, args, Pmat, Vmat, Exmat, m, Smat, Parr, rng,
                   figs, result>>

\* the condition of the "parameter exception" block
ParamsOK(f, cp, a, q) ==
    CASE IsBM(f) -> BMParamsOK(a, q)
      [] IsABM(f) \/ IsATM(f) -> RSigmaOK(a)
      [] IsMC(f) -> MCParamsOK(a, cp)

CheckParams ==
    /\ pc = "check"
    /\ IF ParamsOK(fn, copy, args, par) THEN Goto("check") ELSE Raise(ParamError)
    /\ UNCHANGED <<sample, outer>>
    /\ UNCHANGED <<fn, copy, args, par, Pmat, Vmat, Exmat, m, Smat, Parr,
                   rng, figs, result>>

\* Pmat = asset prices - Kmat
PayoffMatrix(f, a, q) ==
    CASE IsBM(f) -> BMPayoffMatrix(a)
      [] IsABM(f) -> ABMPayoffMatrix(a, q)
      [] IsATM(f) -> ATMPayoffMatrix(a, q)

BuildPmat ==
    /\ pc = "payoff"
    /\ Pmat' = PayoffMatrix(fn, args, par)
    /\ Goto("payoff")
    /\ UNCHANGED <<sample, outer>>
    /\ UNCHANGED <<fn, copy, args, par, Vmat, Exmat, m, Smat, Parr, rng,
                   figs, result>>

\* Smat = S1_GBM(...) or S1AV_GBM(...); Sarr = Smat[:,-1]; Parr = Sarr-K
DrawPaths ==
    /\ pc = "paths"
    /\ \E Z \in Samples(stream, gen, args.Nsim, args.N) :
          /\ Zmat' = Z
          /\ stream' = Produced(stream, gen, Z, args.Nsim, args.N)
          /\ Smat' = IF fn = "MC_Euro"
                     THEN S1_GBM(args.S0, par.mu, args.sigma, args.T, args.N,
                                 args.Nsim, Z)
                     ELSE S1AV_GBM(args.S0, par.mu, args.sigma, args.T, args.N,
                                   args.Nsim, Z)
    /\ gen' = gen + args.Nsim * args.N
    /\ rng' = rng + args.Nsim * args.N
    /\ Parr' = MCPayoff(Smat', args.K)
    /\ Goto("paths")
    /\ UNCHANGED outer
    /\ UNCHANGED <<fn, copy, args, par, Pmat, Vmat, Exmat, m, figs, result>>

\* if optype == 'call' ... elif optype == 'put' ... else: raise
CheckOptype ==
    /\ pc = "optype"
    /\ CASE args.optype = "call" ->
              /\ Goto("optype")
              /\ IF IsMC(fn)
                 THEN Parr' = ClampCallArr(Parr) /\ Pmat' = Pmat
                 ELSE Pmat' = ClampCall(Pmat) /\ Parr' = Parr
         [] args.optype = "put" ->
              /\ Goto("optype")
              /\ IF IsMC(fn)
                 THEN Parr' = ClampPutArr(Parr) /\ Pmat' = Pmat
                 ELSE Pmat' = ClampPut(Pmat) /\ Parr' = Parr
         [] OTHER ->
              /\ Raise(OptypeError)
              /\ UNCHANGED <<Pmat, Parr>>
    /\ UNCHANGED <<sample, outer>>
    /\ UNCHANGED <<fn, copy, args, par, Vmat, Exmat, m, Smat, rng, figs,
                   result>>

\* Vmat = zeros; Vmat[:,-1] = Pmat[:,-1]; with exmat == True also
\* Exmat = zeros
InitVmat ==
    /\ pc = "initV"
    /\ Vmat' = TerminalValues(Pmat)
    /\ Exmat' = IF IsAmer(fn) /\ args.exmat
                THEN Zeros(Len(Pmat), args.N + 1)
                ELSE Exmat
    /\ m' = 0
    /\ Goto("initV")
    /\ UNCHANGED <<sample, outer>>
    /\ UNCHANGED <<fn, copy, args, par, Pmat, Smat, Parr, rng, figs, result>>

\* a variant of LoopNext that leaves the loop one layer early
LoopNextEarlyExit ==
    /\ m' = m + 1
    /\ IF m + 2 >= args.N THEN Goto("back") ELSE UNCHANGED <<pc, err>>

\* one iteration of "for m, t in enumerate(range(Ntree-1,-1,-1))"; the
\* iteration with m = Ntree-1 is the last
LoopNext ==
    /\ m' = m + 1
    /\ IF m + 1 >= args.N THEN Goto("back") ELSE UNCHANGED <<pc, err>>

\* European pricers
BackStepEuro ==
    /\ pc = "back"
    /\ ~IsAmer(fn)
    /\ m < args.N
    /\ Vmat' = EuroStep(fn, Vmat, par, args.N, m)
    /\ LoopNext
    /\ UNCHANGED <<sample, outer>>
    /\ UNCHANGED <<fn, copy, args, par, Pmat, Exmat, Smat, Parr, rng, figs,
                   result>>

\* American pricers, exmat == False
BackStepAmer ==
    /\ pc = "back"
    /\ IsAmer(fn)
    /\ ~args.exmat
    /\ m < args.N
    /\ Vmat' = AmerStep(fn, Vmat, Pmat, par, args.N, m)
    /\ LoopNext
    /\ UNCHANGED <<sample, outer>>
    /\ UNCHANGED <<fn, copy, args, par, Pmat, Exmat, Smat, Parr, rng, figs,
                   result>>

\* American pricers, exmat == True
BackStepExmat ==
    /\ pc = "back"
    /\ IsAmer(fn)
    /\ args.exmat
    /\ m < args.N
    /\ Vmat' = AmerStepTracked(fn, Vmat, Pmat, par, args.N, m)
    /\ Exmat' = ExerciseStep(fn, Exmat, Vmat', Pmat, par, args.N, m)
    /\ LoopNext
    /\ UNCHANGED <<sample, outer>>
    /\ UNCHANGED <<fn, copy, args, par, Pmat, Smat, Parr, rng, figs, result>>

\* plt.matshow(Exmat, ...); plt.title('Early exercise')
Plot ==
    /\ pc = "plot"
    /\ figs' = figs + 1
    /\ Goto("plot")
    /\ UNCHANGED <<sample, outer>>
    /\ UNCHANGED <<fn, copy, args, par, Pmat, Vmat, Exmat, m, Smat, Parr,
                   rng, result>>

\* return (Vmat)
Return ==
    /\ pc = "return"
    /\ result' = Vmat
    /\ Goto("return")
    /\ UNCHANGED <<sample, outer>>
    /\ UNCHANGED <<fn, copy, args, par, Pmat, Vmat, Exmat, m, Smat, Parr,
                   rng, figs>>

\* V0arr = np.exp(-np.sum(dfact))*Parr; return(np.mean(V0arr))
Estimate ==
    /\ pc = "estimate"
    /\ result' = MCEstimate(par, Parr)
    /\ Goto("estimate")
    /\ UNCHANGED <<sample, outer>>
    /\ UNCHANGED <<fn, copy, args, par, Pmat, Vmat, Exmat, m, Smat, Parr,
                   rng, figs>>

Next ==
    \/ CheckMode
    \/ ComputeParams
    \/ CheckParams
    \/ BuildPmat
    \/ DrawPaths
    \/ CheckOptype
    \/ InitVmat
    \/ BackStepEuro
    \/ BackStepAmer
    \/ BackStepExmat
    \/ Plot
    \/ Return
    \/ Estimate

Spec == Init /\ [][Next]_vars

----------------------------------------------------------------------------
(* Reference values used by the properties                                 *)

RECURSIVE EuroPass(_, _, _, _, _)
\* the European backward loop from iteration k on
EuroPass(f, V, q, N, k) ==
    IF k >= N THEN V ELSE EuroPass(f, EuroStep(f, V, q, N, k), q, N, k + 1)

\* the matrix the European pricer of the family returns for the payoff
\* matrix P and the parameters q
EuroValues(f, P, q, N) == EuroPass(f, TerminalValues(P), q, N, 0)

RECURSIVE AmerPass(_, _, _, _, _, _)
\* the American backward loop from iteration k on
AmerPass(f, V, P, q, N, k) ==
    IF k >= N THEN V
    ELSE AmerPass(f, AmerStep(f, V, P, q, N, k), P, q, N, k + 1)

\* the matrix the American pricer of the family returns for P and q
AmerValues(f, P, q, N) == AmerPass(f, TerminalValues(P), P, q, N, 0)

\* the value function f returns for arguments a (that pass its exception
\* blocks) when it runs from start to end with Z as its normal sample
Price(f, a, Z) ==
    IF IsMC(f)
    THEN LET q == MCParams(a)
             S == IF f = "MC_Euro"
                  THEN S1_GBM(a.S0, q.mu, a.sigma, a.T, a.N, a.Nsim, Z)
                  ELSE S1AV_GBM(a.S0, q.mu, a.sigma, a.T, a.N, a.Nsim, Z)
             P == MCPayoff(S, a.K)
         IN  MCEstimate(q, IF a.optype = "call" THEN ClampCallArr(P)
                           ELSE ClampPutArr(P))
    ELSE LET q == ParamsOf(f, a)
             P0 == PayoffMatrix(f, a, q)
             P == IF a.optype = "call" THEN ClampCall(P0) ELSE ClampPut(P0)
         IN  IF IsAmer(f) THEN AmerValues(f, P, q, a.N)
             ELSE EuroValues(f, P, q, a.N)

\* the sample a call draws from the stream st when it alone draws from
\* position g on
AloneSample(st, g, nsim, nsteps) ==
    [i \in 1..nsim |-> [k \in 1..nsteps |-> st[g + (i - 1) * nsteps + k]]]

Terminated == pc \in {"done", "raised"}
TakesSigma(f) == ~IsBM(f)
TakesDiv(f) == IsATM(f) \/ IsMC(f)

\* the call gets as far as its parameter exception block
ReachesCheck == args.N >= 1 /\ (IsABM(fn) => args.mode \in Modes)

\* cells (0-based row, column) of the reachable nodes of layer t
Reachable(f, N, i, t) ==
    /\ t \in 0..N
    /\ IF IsATM(f) THEN i \in (N - t)..(N + t) ELSE i \in (N - t)..N

\* the bracket 0 < d < e^(r dt) < u of the arguments of BM_*
Bracket(a) ==
    LET g == Exp(Mul(a.r, RoundDiv(a.T, a.N)))
    IN  Lt(0, a.d) /\ Lt(a.d, g) /\ Lt(g, a.u)

\* every cell of matrix A is at least the same cell of matrix B
GeqEntrywise(A, B) ==
    \A i \in 1..Len(A) : \A j \in 1..Len(A[i]) : A[i][j] >= B[i][j]

ValidOptype == args.optype \in {"call", "put"}

----------------------------------------------------------------------------
(* Properties                                                              *)

\* C1 (as stated): the matrix an American pricer returns is entrywise at
\* least the matrix the European pricer of the same family computes from
\* the same inputs, for calls and for puts
C1_AmericanGeqEuropean ==
    (pc = "done" /\ IsAmer(fn)) =>
        GeqEntrywise(result, EuroValues(fn, Pmat, par, args.N))

\* C2 (as stated): for a call with r > 0 and no dividend yield the American
\* pricer of each lattice family returns the European values at every node
C2_CallNeverExercisedAnyFamily ==
    (pc = "done" /\ IsAmer(fn) /\ args.optype = "call" /\ args.r > 0
        /\ args.div = 0) =>
        result = EuroValues(fn, Pmat, par, args.N)

\* C2 (amended): for a call with r > 0 and a positive strike BM_Amer returns
\* the values of BM_Euro at every node
C2_BMCallNeverExercised ==
    (pc = "done" /\ fn = "BM_Amer" /\ args.optype = "call" /\ args.r > 0
        /\ args.K > 0) =>
        result = EuroValues(fn, Pmat, par, args.N)

\* BM_Amer has priced a call with r > 0 that is in the money at a node
\* before expiry, where the exercise value enters the maximum
C2_Witness ==
    /\ pc = "done" /\ fn = "BM_Amer" /\ args.optype = "call"
    /\ args.r > 0 /\ args.K > 0
    /\ \E t \in 0..args.N - 1 : \E i \in 0..args.N :
          Reachable(fn, args.N, i, t) /\ At(Pmat, i, t) > 0

C4_ParamErrorBeforeLattice ==
    err = ParamError =>
        /\ Pmat = None /\ Vmat = None /\ Exmat = None
        /\ Smat = None /\ Parr = None /\ rng = 0
        /\ figs = 0 /\ result = None

\* the parameter exception raised for arguments whose derived parameters
\* were computed
C4_Witness ==
    pc = "raised" /\ err = ParamError /\ args.N >= 1 /\ par # None

\* C5 (as stated): a call that gets to its parameter exception block with
\* r <= 0, or with sigma <= 0 where the function takes sigma, ends with the
\* parameter exception
C5_RaisesOnBadRSigma ==
    (Terminated /\ ReachesCheck
        /\ (args.r <= 0 \/ (TakesSigma(fn) /\ args.sigma <= 0))) =>
        (pc = "raised" /\ err = ParamError)

\* C5 (amended): aBM_*, aTM_*, MC_Euro and MCAV_Euro never return a price
\* for r <= 0 or sigma <= 0: they raise the parameter exception unless the
\* call failed before the block (unknown mode, division by a zero step
\* count); BM_* do not test r and raise the parameter exception exactly
\* when 0 < d < e^(r dt) < u fails
C5_RaisesOnBadRSigmaExceptBM ==
    /\ (Terminated /\ ~IsBM(fn) /\ (args.r <= 0 \/ args.sigma <= 0)) =>
          /\ pc = "raised"
          /\ ReachesCheck => err = ParamError
          /\ ~ReachesCheck => err \in {ModeError, ZeroDivisionError}
    /\ (Terminated /\ IsBM(fn) /\ ReachesCheck) =>
          (err = ParamError <=> ~Bracket(args))

\* a pricer other than BM_* has raised the parameter exception for r <= 0
\* with a positive sigma
C5_Witness ==
    /\ pc = "raised" /\ err = ParamError /\ ~IsBM(fn)
    /\ args.r <= 0 /\ args.sigma > 0

\* C6 (as stated): aTM_*, MC_Euro and MCAV_Euro end with the parameter
\* exception whenever div < 0
C6_RaisesOnNegativeDiv ==
    (Terminated /\ TakesDiv(fn) /\ ReachesCheck /\ args.div < 0) =>
        (pc = "raised" /\ err = ParamError)

\* C7 (as stated): div = 0 with r > 0 and sigma > 0 passes the parameter
\* exception block of aTM_* and of every copy of MC_Euro and MCAV_Euro
C7_ZeroDivAccepted ==
    (Terminated /\ TakesDiv(fn) /\ args.div = 0 /\ args.r > 0
        /\ args.sigma > 0) =>
        err # ParamError

\* C8: BM_* raise the parameter exception exactly when the bracket
\* 0 < d < e^(r dt) < u fails, and otherwise go on with
\* p = (e^(r dt) - d)/(u - d)
C8_BMBracket ==
    (IsBM(fn) /\ ReachesCheck /\ pc \notin {"params", "check"}) =>
        /\ (pc = "raised" /\ err = ParamError) <=> ~Bracket(args)
        /\ Bracket(args) =>
              par.p = Div(Exp(Mul(args.r, par.dt)) - args.d, args.u - args.d)

\* BM_* have raised the parameter exception for 0 < d with e^(r dt)
\* outside d..u
C8_Witness ==
    /\ pc = "raised" /\ err = ParamError /\ IsBM(fn)
    /\ args.d > 0 /\ args.r > 0

\* C9 (as stated): aBM_* return no price when the u and d of the chosen
\* scheme violate d < e^(r dt) < u
C9_ABMBracketEnforced ==
    (pc = "done" /\ IsABM(fn)) =>
        LET g == Exp(Mul(args.r, par.dt))
        IN  Lt(par.d, g) /\ Lt(g, par.u)

\* C10: aBM_* raise the scheme exception for a mode outside CRR, JD, EQP,
\* TRG, and do so first: no parameter has been derived and no other
\* exception can take its place, whatever the other arguments are
C10_ModeCheckedFirst ==
    /\ (IsABM(fn) /\ args.mode \notin Modes) =>
          \/ pc = "mode"
          \/ /\ pc = "raised" /\ err = ModeError
             /\ par = None /\ Pmat = None /\ Vmat = None /\ result = None
    /\ err = ModeError => (IsABM(fn) /\ args.mode \notin Modes)

\* the scheme exception raised for arguments that also have a zero step
\* count, r <= 0 and an unknown optype
C10_Witness ==
    /\ pc = "raised" /\ err = ModeError
    /\ args.N = 0 /\ args.r <= 0 /\ ~ValidOptype

\* C11 (as stated): a lattice pricer called with Ntree = 0 raises nothing,
\* runs no backward step and returns the single node holding the intrinsic
\* payoff at S0
C11_ZeroStepsDegenerate ==
    (IsLattice(fn) /\ args.N = 0 /\ Terminated) =>
        /\ pc = "done" /\ err = "" /\ m = 0
        /\ result = <<<<IF args.optype = "call"
                        THEN Max(args.S0 - args.K, 0)
                        ELSE Max(args.K - args.S0, 0)>>>>

\* C12 (as stated): a lattice pricing call leaves the state outside the call
\* as it found it: no figure is added to pyplot's figures and the random
\* generator is not advanced, with exmat = True as well
C12_NoSideEffects ==
    IsLattice(fn) => (figs = 0 /\ rng = 0)

----------------------------------------------------------------------------
(* Two calls at once: a second Monte Carlo call runs in another thread and *)
(* draws its sample from the same global generator                         *)

\* most numbers the second call draws
MaxPeer == 1

\* dw = np.sqrt(dt)*np.random.standard_normal(size=(nsim,nsteps)) executed
\* by the second call while the first has not finished
PeerDraw ==
    /\ ~Terminated
    /\ peer = 0
    /\ \E k \in 1..MaxPeer : \E W \in Samples(stream, gen, 1, k) :
          /\ stream' = Produced(stream, gen, W, 1, k)
          /\ gen' = gen + k
          /\ rng' = rng + k
          /\ peer' = k
    /\ UNCHANGED <<fn, copy, args, pc, par, Pmat, Vmat, Exmat, m, Smat, Parr,
                   figs, err, result, Zmat, gen0, prev, ncall>>

NextConcurrent ==
    \/ Next
    \/ PeerDraw

SpecConcurrent == Init /\ [][NextConcurrent]_vars

\* C13 (as stated): a call that runs while another call runs returns the
\* value it returns when it runs alone from the same starting state (of the
\* generator, for the Monte Carlo estimators), whatever the interleaving
C13_ConcurrentSameAsAlone ==
    pc = "done" =>
        result = Price(fn, args,
                       IF IsMC(fn)
                       THEN AloneSample(stream, gen0, args.Nsim, args.N)
                       ELSE None)

----------------------------------------------------------------------------
(* The same call twice: once the call has returned or raised, the function *)
(* is called again with the same arguments                                 *)

\* np.random.seed(s) with the seed in force before the first call: the
\* generator is back at the start of the same stream
Reseed ==
    /\ Terminated
    /\ ncall = 1
    /\ gen # 0
    /\ gen' = 0
    /\ UNCHANGED <<fn, copy, args, pc, par, Pmat, Vmat, Exmat, m, Smat, Parr,
                   rng, figs, err, result, Zmat, stream, gen0, peer, prev,
                   ncall>>

\* the second call: its locals are fresh, pyplot is as the first call left
\* it, and before a Monte Carlo call the caller has put the generator back
\* into the state in which the first call began
CallAgain ==
    /\ Terminated
    /\ ncall = 1
    /\ IsMC(fn) => gen = gen0
    /\ prev' = [pc |-> pc, err |-> err, result |-> result, gen0 |-> gen0]
    /\ ncall' = 2
    /\ gen0' = gen
    /\ pc' = Order(fn, args)[1]
    /\ err' = ""
    /\ par' = None
    /\ Pmat' = None
    /\ Vmat' = None
    /\ Exmat' = None
    /\ m' = 0
    /\ Smat' = None
    /\ Parr' = None
    /\ result' = None
    /\ Zmat' = None
    /\ UNCHANGED <<fn, copy, args, rng, figs, gen, stream, peer>>

NextTwice ==
    \/ Next
    \/ Reseed
    \/ CallAgain

SpecTwice == Init /\ [][NextTwice]_vars

----------------------------------------------------------------------------
(* Put-call parity                                                         *)

\* largest difference, in units of 1/SC, that the rounding of the fixed
\* point arithmetic puts between the two sides of a parity relation
ParityTol == 500

\* the European matrices for the arguments of the call, priced as a call, as
\* a put, and as a call with strike 0 (node values of the asset itself)
CallValues == Price(fn, [args EXCEPT !.optype = "call"], None)
PutValues == Price(fn, [args EXCEPT !.optype = "put"], None)
AssetValues == Price(fn, [args EXCEPT !.optype = "call", !.K = 0], None)

----------------------------------------------------------------------------
(* Simulated paths                                                         *)

\* (mu - sigma^2/2) dt of the paths of the call
PathDrift == Mul(par.mu - Mul(Half, Mul(args.sigma, args.sigma)), par.dt)

\* the log-increment of step k of row i of Smat: rows 1..Nsim use the normal
\* draws as they came, rows Nsim+1..2 Nsim of S1AV_GBM their negatives
LogIncrement(i, k) ==
    IF i <= args.Nsim
    THEN PathDrift + Mul(args.sigma, Mul(Sqrt(par.dt), Zmat[i][k]))
    ELSE PathDrift - Mul(args.sigma, Mul(Sqrt(par.dt), Zmat[i - args.Nsim][k]))

\* C16: the path matrix has Nsim rows (S1_GBM) or 2 Nsim rows (S1AV_GBM) and
\* Nsteps + 1 columns; column 0 holds S0 and column k holds S0 times the
\* exponential of the sum of the row's first k log-increments
C16_PathMatrix ==
    Smat # None =>
        /\ Len(Smat) = (IF fn = "MC_Euro" THEN args.Nsim ELSE 2 * args.Nsim)
        /\ \A i \in 1..Len(Smat) :
              /\ Len(Smat[i]) = args.N + 1
              /\ Smat[i][1] = args.S0
              /\ \A k \in 1..args.N :
                    Smat[i][k + 1] =
                        Mul(args.S0,
                            Exp(SumSeq([j \in 1..args.N |-> LogIncrement(i, j)],
                                       k)))

\* S1_GBM has returned two paths of two steps whose draws differ
C16_Witness ==
    /\ Smat # None /\ fn = "MC_Euro" /\ args.Nsim = 2 /\ args.N = 2
    /\ Zmat[1] # Zmat[2]

\* largest difference, in units of 1/SC, that rounding puts between the two
\* sides of the relations between antithetic partners
PairTol == 5

\* C17: rows i and i + Nsim of the matrix of S1AV_GBM are antithetic
\* partners: at every step k their log-increments add up to
\* 2 (mu - sigma^2/2) dt and S[i,k] S[i+Nsim,k] = S0^2 exp(2 (mu -
\* sigma^2/2) k dt), whatever the draws (stated for the paths scaled by S0)
C17_AntitheticPairs ==
    (Smat # None /\ fn = "MCAV_Euro") =>
        \A i \in 1..args.Nsim : \A k \in 1..args.N :
            LET a == Smat[i]
                b == Smat[i + args.Nsim]
            IN  /\ Abs(Ln(Div(a[k + 1], a[k])) + Ln(Div(b[k + 1], b[k]))
                       - 2 * PathDrift) <= PairTol
                /\ Abs(Mul(Div(a[k + 1], args.S0), Div(b[k + 1], args.S0))
                       - Exp(2 * k * PathDrift)) <= PairTol

\* S1AV_GBM has returned the partners of two paths of two steps
C17_Witness ==
    /\ Smat # None /\ fn = "MCAV_Euro" /\ args.Nsim = 2 /\ args.N = 2
    /\ Len(Smat) = 4

----------------------------------------------------------------------------
(* Backward induction                                                      *)

\* dfact (p V_up + (1-p) V_down) for the node in row i of layer t: V_up is
\* the cell one row higher in column t+1, V_down the cell of the same row
BinomNode(V, q, i, t) ==
    Mul(q.dfact, Mul(q.p, At(V, i - 1, t + 1))
                 + Mul(One - q.p, At(V, i, t + 1)))

\* dfact (pu V_up + pm V_mid + pd V_down) for the node in row i of layer t
TrinomNode(V, q, i, t) ==
    Mul(q.dfact, Mul(q.pu, At(V, i - 1, t + 1))
                 + Mul(q.pm, At(V, i, t + 1))
                 + Mul(q.pd, At(V, i + 1, t + 1)))

NodeContinuation(f, V, q, i, t) ==
    IF IsATM(f) THEN TrinomNode(V, q, i, t) ELSE BinomNode(V, q, i, t)

\* C18: in the matrix BM_Euro or aBM_Euro returns for Ntree >= 1, every node
\* of every layer t < Ntree (rows Ntree-t..Ntree of column t) holds
\* dfact (p V_up + (1-p) V_down) of its two successors in layer t+1, which
\* are reachable nodes of that layer
C18_BinomialStep ==
    (pc = "done" /\ fn \in {"BM_Euro", "aBM_Euro"} /\ args.N >= 1) =>
        \A t \in 0..args.N - 1 : \A i \in (args.N - t)..args.N :
            /\ Reachable(fn, args.N, i - 1, t + 1)
            /\ Reachable(fn, args.N, i, t + 1)
            /\ At(result, i, t) = BinomNode(result, par, i, t)

\* a binomial European pricer has returned a tree of two steps or more with
\* a node before expiry whose two successors differ in value
C18_Witness ==
    /\ pc = "done" /\ fn \in {"BM_Euro", "aBM_Euro"} /\ args.N >= 2
    /\ \E t \in 0..args.N - 1 : \E i \in (args.N - t)..args.N :
          /\ At(result, i - 1, t + 1) # At(result, i, t + 1)
          /\ At(result, i, t) > 0

\* C19: in the matrix aTM_Euro returns for Ntree >= 1, every node of every
\* layer t < Ntree (rows Ntree-t..Ntree+t of column t) holds
\* dfact (pu V_up + pm V_mid + pd V_down) of its three successors in layer
\* t+1; the three slices the code reads lie within the 2 Ntree + 1 rows and
\* have 2t+1 entries each
C19_TrinomialStep ==
    (pc = "done" /\ fn = "aTM_Euro" /\ args.N >= 1) =>
        \A t \in 0..args.N - 1 :
            LET N == args.N
                k == N - 1 - t
            IN  /\ 2 * N - (k - 1) <= NRows(result)
                /\ Len(Slice(result, k, 2 * N - (k + 1), t + 1)) = 2 * t + 1
                /\ Len(Slice(result, k + 1, 2 * N - k, t + 1)) = 2 * t + 1
                /\ Len(Slice(result, k + 2, 2 * N - (k - 1), t + 1)) = 2 * t + 1
                /\ \A i \in (N - t)..(N + t) :
                      At(result, i, t) = TrinomNode(result, par, i, t)

\* aTM_Euro has returned a tree of two steps or more with a node before
\* expiry whose upper and lower successors differ in value
C19_Witness ==
    /\ pc = "done" /\ fn = "aTM_Euro" /\ args.N >= 2
    /\ \E t \in 0..args.N - 1 : \E i \in (args.N - t)..(args.N + t) :
          /\ At(result, i - 1, t + 1) # At(result, i + 1, t + 1)
          /\ At(result, i, t) > 0

\* C20: in the matrix an American pricer returns, every node of every layer
\* t < Ntree holds the larger of the continuation value, computed from the
\* returned (maximised) values of its successors, and the entry of the
\* payoff matrix in the node's own row and column
C20_AmericanMax ==
    (pc = "done" /\ IsAmer(fn)) =>
        \A t \in 0..args.N - 1 : \A i \in 0..NRows(result) - 1 :
            Reachable(fn, args.N, i, t) =>
                At(result, i, t) =
                    Max(NodeContinuation(fn, result, par, i, t), At(Pmat, i, t))

\* an American pricer has returned a matrix with a node before expiry where
\* the exercise value exceeds the continuation value
C20_Witness ==
    /\ pc = "done" /\ IsAmer(fn)
    /\ \E t \in 0..args.N - 1 : \E i \in 0..NRows(result) - 1 :
          /\ Reachable(fn, args.N, i, t)
          /\ At(result, i, t) = At(Pmat, i, t)
          /\ At(Pmat, i, t) > NodeContinuation(fn, result, par, i, t)

----------------------------------------------------------------------------
(* Exercise flags                                                          *)

\* the call has left its backward loop with exercise tracking on
Tracked == IsAmer(fn) /\ args.exmat /\ pc \in {"plot", "return", "done"}

\* C21: with exmat = True the flag of every reachable node of the layers
\* 0..Ntree-1 is set exactly when the node's continuation value, computed
\* from the values of layer t+1 as they stand after the loop, is strictly
\* below the node's payoff; a tie leaves the flag unset
C21_ExerciseFlags ==
    Tracked =>
        \A t \in 0..args.N - 1 : \A i \in 0..NRows(Vmat) - 1 :
            Reachable(fn, args.N, i, t) =>
                (At(Exmat, i, t) = 1
                    <=> NodeContinuation(fn, Vmat, par, i, t) < At(Pmat, i, t))

\* a tracked American call has flagged one node and left unflagged a node
\* whose continuation value equals its payoff
C21_Witness ==
    /\ Tracked
    /\ \E t \in 0..args.N - 1 : \E i \in 0..NRows(Vmat) - 1 :
          Reachable(fn, args.N, i, t) /\ At(Exmat, i, t) = 1
    /\ \E t \in 0..args.N - 1 : \E i \in 0..NRows(Vmat) - 1 :
          /\ Reachable(fn, args.N, i, t) /\ At(Exmat, i, t) = 0
          /\ NodeContinuation(fn, Vmat, par, i, t) = At(Pmat, i, t)

----------------------------------------------------------------------------
(* The backward pass                                                       *)

\* a call runs to completion: the interpreter executes the function body
\* statement by statement until it returns or raises.  This is weak
\* fairness of Next, WF_vars(Next), written out as
\* []<>~ENABLED <<Next>>_vars \/ []<><<Next>>_vars: a step of Next is
\* possible, and changes vars, exactly in the states that are not Terminated
SpecFair == Spec /\ ([]<>Terminated \/ []<><<Next>>_vars)

\* the loop has been left with one update per layer
AllLayersDone ==
    (IsLattice(fn) /\ pc \in {"plot", "return", "done"}) => m = args.N

\* one iteration: it is iteration m of fewer than Ntree, it writes layer
\* t = Ntree-1-m and nothing else, and what it writes is determined by
\* layer t+1 as it stood before the write
LayerUpdate ==
    pc = "back" =>
        /\ m < args.N
        /\ m' = m + 1
        /\ \A t \in {args.N - 1 - m} : \A i \in 0..NRows(Vmat) - 1 :
              /\ \A j \in 0..args.N : j # t => At(Vmat', i, j) = At(Vmat, i, j)
              /\ Reachable(fn, args.N, i, t) =>
                    At(Vmat', i, t) =
                        IF IsAmer(fn)
                        THEN Max(NodeContinuation(fn, Vmat, par, i, t),
                                 At(Pmat, i, t))
                        ELSE NodeContinuation(fn, Vmat, par, i, t)
              /\ ~Reachable(fn, args.N, i, t) =>
                    At(Vmat', i, t) = At(Vmat, i, t)

\* C22: the backward pass makes exactly Ntree layer updates, for
\* t = Ntree-1 down to 0, each once, and then the call terminates; the
\* update of layer t is computed from layer t+1 alone, which was written
\* before and is not written again
C22_BackwardPass ==
    /\ []AllLayersDone
    /\ [][LayerUpdate]_vars
    /\ <>Terminated

\* a lattice call over three steps has returned after three layer updates
C22_Witness ==
    IsLattice(fn) /\ pc = "done" /\ args.N = MaxN /\ m = MaxN

----------------------------------------------------------------------------
(* The maturity layer                                                      *)

\* the asset price of a node: the payoff matrix holds price - K before the
\* option type is applied
NodePrice(P0, a, i, t) == At(P0, i, t) + a.K

\* max(S - K, 0) for a call, max(K - S, 0) for a put
Intrinsic(optype, S, K) ==
    IF optype = "call" THEN Max(S - K, 0) ELSE Max(K - S, 0)

\* C23: in the returned matrix every reachable node of the maturity layer
\* (column Ntree) holds the intrinsic payoff of its asset price, undiscounted
C23_MaturityLayer ==
    (IsLattice(fn) /\ pc = "done") =>
        \A P0 \in {PayoffMatrix(fn, args, par)} :
            \A i \in 0..NRows(result) - 1 :
                Reachable(fn, args.N, i, args.N) =>
                    At(result, i, args.N) =
                        Intrinsic(args.optype,
                                  NodePrice(P0, args, i, args.N), args.K)

\* a returned matrix has a maturity node in the money and one out of the money
C23_Witness ==
    /\ IsLattice(fn) /\ pc = "done"
    /\ \E i \in 0..NRows(result) - 1 :
          Reachable(fn, args.N, i, args.N) /\ At(result, i, args.N) > 0
    /\ \E i \in 0..NRows(result) - 1 :
          /\ Reachable(fn, args.N, i, args.N) /\ At(result, i, args.N) = 0
          /\ NodePrice(PayoffMatrix(fn, args, par), args, i, args.N) # args.K

----------------------------------------------------------------------------
(* The binomial lattice                                                    *)

\* the payoff matrix of a binomial pricer has been built and still holds
\* price - K
BinomialBuilt == (IsBM(fn) \/ IsABM(fn)) /\ pc = "optype"

\* the price stored for the node of layer t with j up-moves
Stored(t, j) == NodePrice(Pmat, args, args.N - j, t)

\* rounding allowance of the price comparison, the arithmetic keeping four
\* decimals: one part in PriceTol
PriceTol == 200

Near(x, y) ==
    /\ ~IsNaN(x) /\ ~IsNaN(y)
    /\ Abs(x - y) <= Max(Abs(x), Abs(y)) \div PriceTol + 1

\* C24: in the binomial pricers the node of layer t with j up-moves is
\* stored at row Ntree-j of column t and has price S0 * u^j * d^(t-j); its
\* up-successor has price u*S and its down-successor d*S, so that up-down
\* and down-up meet in one cell
C24_Recombination ==
    BinomialBuilt =>
        \A t \in 0..args.N : \A j \in 0..t :
            /\ Near(Stored(t, j),
                    Mul(Mul(args.S0, IPow(par.u, j)), IPow(par.d, t - j)))
            /\ t < args.N =>
                  /\ Near(Stored(t + 1, j + 1), Mul(par.u, Stored(t, j)))
                  /\ Near(Stored(t + 1, j), Mul(par.d, Stored(t, j)))

\* a binomial lattice of full depth with distinct up and down factors
C24_Witness ==
    /\ BinomialBuilt /\ args.N = MaxN /\ par.u # par.d
    /\ Stored(2, 2) # Stored(2, 1) /\ Stored(2, 1) # Stored(2, 0)

----------------------------------------------------------------------------
(* Lattice parameters                                                      *)

\* the parameter exception block has been passed
Accepted == pc \in {"payoff", "optype", "initV", "back", "plot", "return", "done"}

\* C25: for each binomial scheme (the u, d given to BM_*, and CRR, JD, EQP,
\* TRG) and every accepted input, u > 0, 0 < d < u and 0 <= p <= 1
C25_ValidParameters ==
    ((IsBM(fn) \/ IsABM(fn)) /\ Accepted) =>
        /\ Lt(0, par.u)
        /\ Lt(0, par.d) /\ Lt(par.d, par.u)
        /\ Le(0, par.p) /\ Le(par.p, One)

\* the three probabilities add up to one, within one unit of rounding each
SumToOne == Abs(par.pu + par.pm + par.pd - One) <= 3

\* C26: for every accepted input of aTM_* the probabilities pu, pm, pd add
\* up to one and each lies in [0, 1]
C26_TrinomialProbabilities ==
    (IsATM(fn) /\ Accepted) =>
        /\ SumToOne
        /\ \A x \in {par.pu, par.pm, par.pd} : Le(0, x) /\ Le(x, One)

\* one of the three probabilities is negative
SomeNegative == Lt(par.pu, 0) \/ Lt(par.pm, 0) \/ Lt(par.pd, 0)

----------------------------------------------------------------------------
(* Exercise tracking and the values                                        *)

\* C28: an American pricer called with exmat = True returns the value matrix
\* it returns for the same arguments with exmat = False, after one backward
\* pass of Ntree layer updates
C28_TrackingKeepsValues ==
    (IsAmer(fn) /\ args.exmat /\ pc = "done") =>
        /\ result = Price(fn, [args EXCEPT !.exmat = FALSE], None)
        /\ m = args.N

\* a tracked American call has returned a matrix in which a node is worth
\* more than its continuation value
C28_Witness ==
    /\ IsAmer(fn) /\ args.exmat /\ pc = "done" /\ args.N = MaxN
    /\ \E t \in 0..args.N - 1 : \E i \in 0..NRows(result) - 1 :
          /\ Reachable(fn, args.N, i, t)
          /\ At(result, i, t) > NodeContinuation(fn, result, par, i, t)

\* a probability of the lattice lies outside [0, 1]
OutOfRange ==
    IF IsATM(fn)
    THEN \E x \in {par.pu, par.pm, par.pd} : Lt(x, 0) \/ Lt(One, x)
    ELSE Lt(par.p, 0) \/ Lt(One, par.p)

\* C29: in the matrix an American pricer returns, every reachable node of
\* every layer 0..Ntree is worth at least its own intrinsic payoff, which is
\* at least zero, whatever the probabilities; so is the root
C29_ValueGeqIntrinsic ==
    (IsAmer(fn) /\ pc = "done") =>
        \A P0 \in {PayoffMatrix(fn, args, par)} :
            /\ \A t \in 0..args.N : \A i \in 0..NRows(result) - 1 :
                  Reachable(fn, args.N, i, t) =>
                      /\ At(Pmat, i, t) =
                            Intrinsic(args.optype,
                                      NodePrice(P0, args, i, t), args.K)
                      /\ At(result, i, t) >= At(Pmat, i, t)
                      /\ At(Pmat, i, t) >= 0
            /\ At(result, args.N, 0) >= Intrinsic(args.optype, args.S0, args.K)

\* an American pricer has returned a matrix computed with a probability
\* outside [0, 1], in which a node with a negative continuation value is
\* worth its intrinsic payoff
C29_Witness ==
    /\ IsAmer(fn) /\ pc = "done" /\ OutOfRange
    /\ \E t \in 0..args.N - 1 : \E i \in 0..NRows(result) - 1 :
          /\ Reachable(fn, args.N, i, t)
          /\ NodeContinuation(fn, result, par, i, t) < 0
          /\ At(result, i, t) = At(Pmat, i, t)

\* C30: with exmat = True a flag is set only at a reachable node of a layer
\* t < Ntree whose intrinsic payoff is strictly positive and whose final
\* value equals that payoff; cells of the maturity layer and cells outside
\* the reachable lattice are never flagged
C30_FlagsOnlyInTheMoney ==
    Tracked =>
        \A t \in 0..args.N : \A i \in 0..NRows(Exmat) - 1 :
            At(Exmat, i, t) = 1 =>
                /\ Reachable(fn, args.N, i, t) /\ t < args.N
                /\ At(Pmat, i, t) > 0
                /\ At(Vmat, i, t) = At(Pmat, i, t)

====
